---- MODULE Spec2Model ----
(***************************************************************************)
(* Photo-analysis pipeline of src/utils/photoAnalysis.ts:                  *)
(*   analyzePhotoWithAI = uploadWithRetry -> HEAD check ->                 *)
(*   generateBasicAnalysis -> generateEnhancedAnalysis, with the top-level *)
(*   catch that answers every error with generateFallbackAnalysis.         *)
(* Strings the code inspects character by character (hex codes, URLs) are  *)
(* sequences of one-character strings; messages are sequences of words.    *)
(* JavaScript objects are functions from field names to values, so that a  *)
(* missing field is a name outside the DOMAIN.                             *)
(***************************************************************************)
EXTENDS Integers, Sequences, FiniteSets, TLC

VARIABLES
    pc,           \* position of the analyzePhotoWithAI invocation
    file,         \* the File argument: [size, name, type]
    attempt,      \* uploadWithRetry: loop variable `attempt`
    lastError,    \* uploadWithRetry: `lastError` (message), <<>> for null
    storeCalls,   \* number of blink.storage.upload calls made
    waits,        \* the setTimeout delays uploadWithRetry has awaited, in order
    lastOutcome,  \* what the store answered to the most recent upload call
    publicUrl,    \* uploadResult.publicUrl once uploadWithRetry returned
    uploadError,  \* message of the error uploadWithRetry threw, <<>> if none
    headCalls,    \* number of HEAD requests made
    aiCalls,      \* number of primary blink.ai.generateObject calls
    enrichCalls,  \* number of enrichment blink.ai.generateObject calls
    primary,      \* the settlement of the primary AI call
    basic,        \* the value generateBasicAnalysis returned
    enrichKind,   \* how the enrichment AI call settled
    enrichment,   \* the settlement of the enrichment AI call
    headResult,   \* how the HEAD request ended: "none", "ok", "notok", "throw"
    race,         \* Promise.race of the primary AI call and the 60 s timer
    caught,       \* message of the error caught at the top level, <<>> if none
    result,       \* the value analyzePhotoWithAI resolved with
    outcome       \* "pending", "resolved" or "rejected"

vars == <<pc, file, attempt, lastError, storeCalls, waits, lastOutcome, publicUrl,
          uploadError, headCalls, aiCalls, enrichCalls, primary, basic, enrichKind,
          enrichment, headResult, race, caught, result, outcome>>

\* A harness that calls one pure function of the code on one argument.
VARIABLES
    fnCall,       \* the function called last, "none" before the first call
    fnArg,        \* the argument: [kind, value]
    fnRes         \* what the call returned

fnVars == <<fnCall, fnArg, fnRes>>

\* The React state of App (src/App.tsx) and its analyzePhoto calls in flight.
VARIABLES
    selectedFile,       \* useState: the chosen File, or Null
    isAnalyzing,        \* useState
    analysisResult,     \* useState: the AnalysisResult, or Null
    isPremiumUnlocked,  \* useState
    showPricingModal,   \* useState
    currentAnalysisId,  \* useState: [id |-> number of the analysis], or Null
    activeTab,          \* useState
    error,              \* useState: the message shown, <<>> for null
    inFlight,           \* analyzePhoto calls awaiting analyzePhotoWithAI: set of [id, file]
    started,            \* number of analyzePhoto calls made so far
    resultFile,         \* the file whose analysis produced analysisResult, or Null
    overlapped,         \* whether a call was started while another was in flight
    mounted             \* whether the mount effects of App have run

appVars == <<selectedFile, isAnalyzing, analysisResult, isPremiumUnlocked,
             showPricingModal, currentAnalysisId, activeTab, error, inFlight,
             started, resultFile, overlapped, mounted>>

\* A RateLimiter (utils/security.ts) and the clock it reads.
VARIABLES
    maxAttempts,  \* constructor parameter
    windowMs,     \* constructor parameter
    attempts,     \* the Map `attempts`: identifier -> sequence of times
    now,          \* Date.now()
    granted,      \* per identifier, the times of the calls that returned true
    lastCall      \* the last call made: [op, identifier, answer]

limiterVars == <<maxAttempts, windowMs, attempts, now, granted, lastCall>>

\* The ErrorLogger singleton (utils/admin.ts) and its localStorage item.
VARIABLES
    logs,         \* ErrorLogger.logs, index 1 is logs[0]
    persisted,    \* localStorage 'error_logs' parsed, <<>> when the item is absent
    logCalls,     \* number of logError calls made so far
    loggerOp,     \* the last operation: "load", "logError" or "clearLogs"
    setItemThrew  \* whether localStorage.setItem threw in the last persistLogs

loggerVars == <<logs, persisted, logCalls, loggerOp, setItemThrew>>

allVars == <<vars, fnVars, appVars, limiterVars, loggerVars>>

\* A component that takes no part in a specification keeps these values.
NoFunctionCall == fnCall = "none" /\ fnArg = [null |-> TRUE] /\ fnRes = [null |-> TRUE]

NoApp ==
    /\ selectedFile = [null |-> TRUE]
    /\ isAnalyzing = FALSE
    /\ analysisResult = [null |-> TRUE]
    /\ isPremiumUnlocked = FALSE
    /\ showPricingModal = FALSE
    /\ currentAnalysisId = [null |-> TRUE]
    /\ activeTab = "new"
    /\ error = <<>>
    /\ inFlight = {}
    /\ started = 0
    /\ resultFile = [null |-> TRUE]
    /\ overlapped = FALSE
    /\ mounted = FALSE

NoLimiter ==
    /\ maxAttempts = 0
    /\ windowMs = 0
    /\ attempts = <<>>
    /\ now = 0
    /\ granted = <<>>
    /\ lastCall = [null |-> TRUE]

NoLogger ==
    /\ logs = <<>>
    /\ persisted = <<>>
    /\ logCalls = 0
    /\ loggerOp = "none"
    /\ setItemThrew = FALSE

NoPipeline ==
    /\ pc = "absent"
    /\ file = [null |-> TRUE]
    /\ attempt = 1
    /\ lastError = <<>>
    /\ storeCalls = 0
    /\ waits = <<>>
    /\ lastOutcome = [null |-> TRUE]
    /\ publicUrl = <<>>
    /\ uploadError = <<>>
    /\ headCalls = 0
    /\ aiCalls = 0
    /\ enrichCalls = 0
    /\ primary = [null |-> TRUE]
    /\ basic = [null |-> TRUE]
    /\ enrichKind = "none"
    /\ enrichment = [null |-> TRUE]
    /\ headResult = "none"
    /\ race = "idle"
    /\ caught = <<>>
    /\ result = [null |-> TRUE]
    /\ outcome = "pending"

\* Largest number of colors the primary AI call is made to return.
MaxAIColors == 4

\* `maxRetries = 3`, the default parameter of uploadWithRetry.
maxRetries == 3

\* 15 * 1024 * 1024
MaxFileSize == 15728640

\* No object / undefined, where an object is expected.
Null == [null |-> TRUE]

\* No message.
NoError == <<>>

\* {...a, ...b}: the fields of b take precedence.
Spread(a, b) == b @@ a

Has(o, k) == k \in DOMAIN o

-----------------------------------------------------------------------------
(* Characters and hex strings *)

LowerHexDigits == <<"0","1","2","3","4","5","6","7","8","9","a","b","c","d","e","f">>
UpperHexDigits == <<"0","1","2","3","4","5","6","7","8","9","A","B","C","D","E","F">>

HexChars == {LowerHexDigits[i] : i \in 1..16} \cup {UpperHexDigits[i] : i \in 1..16}

\* /^#[0-9A-Fa-f]{6}$/
MatchesHex6(h) ==
    /\ Len(h) = 7
    /\ h[1] = "#"
    /\ \A i \in 2..7 : h[i] \in HexChars

StartsWith(s, p) ==
    /\ Len(s) >= Len(p)
    /\ \A i \in 1..Len(p) : s[i] = p[i]

\* value of one hex digit, either case
HexVal(c) == CHOOSE v \in 0..15 : LowerHexDigits[v + 1] = c \/ UpperHexDigits[v + 1] = c

\* hex.replace('#', ''): removes the first '#'
RECURSIVE RemoveFirstHash(_)
RemoveFirstHash(s) ==
    IF s = <<>> THEN <<>>
    ELSE IF Head(s) = "#" THEN Tail(s)
    ELSE <<Head(s)>> \o RemoveFirstHash(Tail(s))

\* parseInt(digits, 16) for a string of hex digits
RECURSIVE ParseInt16(_)
ParseInt16(s) ==
    IF s = <<>> THEN 0
    ELSE 16 * ParseInt16(SubSeq(s, 1, Len(s) - 1)) + HexVal(s[Len(s)])

\* n.toString(16)
RECURSIVE ToString16(_)
ToString16(n) ==
    IF n < 16 THEN <<LowerHexDigits[n + 1]>>
    ELSE ToString16(n \div 16) \o <<LowerHexDigits[(n % 16) + 1]>>

\* (X < 255 ? X < 1 ? 0 : X : 255)
Clamp(x) == IF x < 255 THEN (IF x < 1 THEN 0 ELSE x) ELSE 255

\* Variant: the channels are printed without the 0x1000000 guard digit.
ShiftChannels_Unpadded(hex, amt) ==
    LET num == ParseInt16(RemoveFirstHash(hex))
        R == (num \div 65536) + amt
        G == ((num \div 256) % 256) + amt
        B == (num % 256) + amt
    IN  <<"#">> \o ToString16(Clamp(R) * 65536 + Clamp(G) * 256 + Clamp(B))

ShiftChannels(hex, amt) ==
    LET num == ParseInt16(RemoveFirstHash(hex))
        R == (num \div 65536) + amt
        G == ((num \div 256) % 256) + amt
        B == (num % 256) + amt
    IN  <<"#">> \o Tail(ToString16(16777216 + Clamp(R) * 65536 + Clamp(G) * 256 + Clamp(B)))

lightenColor(hex) == ShiftChannels(hex, 40)

darkenColor(hex) == ShiftChannels(hex, -40)

-----------------------------------------------------------------------------
(* Fallback Generator: generateFallbackPremiumData, generateFallbackAnalysis *)

Seasons == {"Spring", "Summer", "Autumn", "Winter"}

\* the table `seasonColors`, indexed by a season name it has
seasonColors(season) ==
    CASE season = "Spring" ->
        <<[name |-> <<"Coral Pink">>, hex |-> <<"#","F","F","7","F","7","F">>,
           description |-> <<"Vibrant and energizing">>, category |-> "accent"],
          [name |-> <<"Golden Yellow">>, hex |-> <<"#","F","F","D","7","0","0">>,
           description |-> <<"Bright and cheerful">>, category |-> "statement"],
          [name |-> <<"Peach">>, hex |-> <<"#","F","F","C","B","A","4">>,
           description |-> <<"Soft and flattering">>, category |-> "soft"],
          [name |-> <<"Warm Beige">>, hex |-> <<"#","F","5","F","5","D","C">>,
           description |-> <<"Perfect neutral base">>, category |-> "neutral"],
          [name |-> <<"Turquoise">>, hex |-> <<"#","4","0","E","0","D","0">>,
           description |-> <<"Fresh and lively">>, category |-> "accent"]>>
      [] season = "Summer" ->
        <<[name |-> <<"Soft Blue">>, hex |-> <<"#","8","7","C","E","E","B">>,
           description |-> <<"Cool and calming">>, category |-> "accent"],
          [name |-> <<"Lavender">>, hex |-> <<"#","E","6","E","6","F","A">>,
           description |-> <<"Gentle and elegant">>, category |-> "soft"],
          [name |-> <<"Rose Pink">>, hex |-> <<"#","F","F","C","0","C","B">>,
           description |-> <<"Romantic and soft">>, category |-> "accent"],
          [name |-> <<"Cool Gray">>, hex |-> <<"#","D","3","D","3","D","3">>,
           description |-> <<"Sophisticated neutral">>, category |-> "neutral"],
          [name |-> <<"Mint Green">>, hex |-> <<"#","9","8","F","B","9","8">>,
           description |-> <<"Fresh and cool">>, category |-> "soft"]>>
      [] season = "Autumn" ->
        <<[name |-> <<"Burnt Orange">>, hex |-> <<"#","C","C","5","5","0","0">>,
           description |-> <<"Rich and warm">>, category |-> "statement"],
          [name |-> <<"Deep Burgundy">>, hex |-> <<"#","8","0","0","0","2","0">>,
           description |-> <<"Luxurious and bold">>, category |-> "statement"],
          [name |-> <<"Golden Brown">>, hex |-> <<"#","B","8","8","6","0","B">>,
           description |-> <<"Earthy and grounding">>, category |-> "neutral"],
          [name |-> <<"Olive Green">>, hex |-> <<"#","8","0","8","0","0","0">>,
           description |-> <<"Natural and sophisticated">>, category |-> "accent"],
          [name |-> <<"Warm Cream">>, hex |-> <<"#","F","F","F","D","D","0">>,
           description |-> <<"Soft neutral base">>, category |-> "neutral"]>>
      [] season = "Winter" ->
        <<[name |-> <<"True Red">>, hex |-> <<"#","F","F","0","0","0","0">>,
           description |-> <<"Bold and striking">>, category |-> "statement"],
          [name |-> <<"Royal Blue">>, hex |-> <<"#","4","1","6","9","E","1">>,
           description |-> <<"Regal and powerful">>, category |-> "statement"],
          [name |-> <<"Pure White">>, hex |-> <<"#","F","F","F","F","F","F">>,
           description |-> <<"Clean and crisp">>, category |-> "neutral"],
          [name |-> <<"Black">>, hex |-> <<"#","0","0","0","0","0","0">>,
           description |-> <<"Classic and elegant">>, category |-> "neutral"],
          [name |-> <<"Emerald Green">>, hex |-> <<"#","5","0","C","8","7","8">>,
           description |-> <<"Vibrant and luxurious">>, category |-> "accent"]>>

\* String.prototype.toLowerCase on the strings the pipeline applies it to
toLowerCase(s) ==
    CASE s = "Spring" -> "spring"
      [] s = "Summer" -> "summer"
      [] s = "Autumn" -> "autumn"
      [] s = "Winter" -> "winter"
      [] s = "Fall" -> "fall"
      [] s = "Black" -> "black"
      [] s = "Burnt Orange" -> "burnt orange"
      [] s = "Cool Gray" -> "cool gray"
      [] s = "Coral Pink" -> "coral pink"
      [] s = "Deep Burgundy" -> "deep burgundy"
      [] s = "Emerald Green" -> "emerald green"
      [] s = "Golden Brown" -> "golden brown"
      [] s = "Golden Yellow" -> "golden yellow"
      [] s = "Lavender" -> "lavender"
      [] s = "Mint Green" -> "mint green"
      [] s = "Olive Green" -> "olive green"
      [] s = "Peach" -> "peach"
      [] s = "Pure White" -> "pure white"
      [] s = "Rose Pink" -> "rose pink"
      [] s = "Royal Blue" -> "royal blue"
      [] s = "Soft Blue" -> "soft blue"
      [] s = "True Red" -> "true red"
      [] s = "Turquoise" -> "turquoise"
      [] s = "Warm Beige" -> "warm beige"
      [] s = "Warm Cream" -> "warm cream"

makeupTipsFallback(basicAnalysis) ==
    <<<<"Use ", toLowerCase(basicAnalysis.season), " tones for your foundation to complement your undertones">>,
      <<"Choose lipstick colors that enhance your natural lip color">>,
      <<"Apply eyeshadow in colors that make your eyes pop">>,
      <<"Use blush in colors that naturally flush your cheeks">>,
      <<"Choose eyeliner colors that define without overpowering">>,
      <<"Select mascara that enhances your natural lash color">>,
      <<"Use highlighter in tones that complement your skin">>,
      <<"Choose nail polish colors that coordinate with your palette">>>>

wardrobeGuideFallback ==
    <<<<"Build your wardrobe around your best neutral colors">>,
      <<"Add accent colors through accessories and statement pieces">>,
      <<"Choose fabrics and textures that complement your season">>,
      <<"Invest in quality basics in your most flattering neutrals">>,
      <<"Use your statement colors for special occasions">>,
      <<"Layer different tones from your palette for depth">>,
      <<"Choose patterns that incorporate your best colors">>,
      <<"Select jewelry metals that complement your undertones">>,
      <<"Consider the lighting when choosing colors for different occasions">>,
      <<"Mix textures within your color palette for visual interest">>>>

characteristicsFallback ==
    <<<<"Natural warmth in skin undertones">>,
      <<"Harmonious color palette that enhances your features">>,
      <<"Balanced contrast levels that flatter your complexion">>,
      <<"Colors that make your eyes appear brighter">>,
      <<"Tones that give your skin a healthy glow">>>>

avoidColorsFallback ==
    <<<<"Colors that clash with your undertones">>,
      <<"Overly bright or muted shades that wash you out">>,
      <<"Colors that make you appear tired or pale">>,
      <<"Tones that compete with your natural coloring">>,
      <<"Shades that require heavy makeup to look good">>>>

seasonalDescription(basicAnalysis) ==
    <<"Your ", basicAnalysis.season, " season is characterized by specific color harmonies that complement your natural features and bring out your best qualities.">>

fallbackSkinTone(randomSeason) ==
    <<"Based on general analysis principles, we've determined your ", toLowerCase(randomSeason), " coloring. While we couldn't perform a detailed AI analysis, these colors are carefully selected to complement ", toLowerCase(randomSeason), " features.">>

fallbackRecommendations(randomSeason) ==
    <<<<"Explore ", toLowerCase(randomSeason), " color palettes that complement your natural features">>,
      <<"Consider colors that enhance your skin tone and bring out your best features">>,
      <<"Try different shades within your color season to find your favorites">>,
      <<"Use these colors as a starting point for building your personal palette">>>>

Min(a, b) == IF a < b THEN a ELSE b

\* `seasonColors[basicAnalysis.season] || seasonColors.Spring`
baseColorsOf(basicAnalysis) ==
    IF basicAnalysis.season \in Seasons
    THEN seasonColors(basicAnalysis.season)
    ELSE seasonColors("Spring")

lightVariant(color) ==
    Spread(color, [name |-> <<"Light ">> \o color.name,
                   hex |-> lightenColor(color.hex),
                   description |-> <<"Lighter variation of ", toLowerCase(color.name[1])>>,
                   category |-> "soft"])

deepVariant(color) ==
    Spread(color, [name |-> <<"Deep ">> \o color.name,
                   hex |-> darkenColor(color.hex),
                   description |-> <<"Deeper variation of ", toLowerCase(color.name[1])>>,
                   category |-> "statement"])

\* Variant: the deep variants come before the light ones.
fallbackPremiumColors_DeepFirst(basicAnalysis) ==
    LET baseColors == baseColorsOf(basicAnalysis)
        all == baseColors
               \o [i \in 1..Len(baseColors) |-> deepVariant(baseColors[i])]
               \o [i \in 1..Len(baseColors) |-> lightVariant(baseColors[i])]
    IN  SubSeq(all, 1, Min(24, Len(all)))

\* [...baseColors, ...light variants, ...deep variants].slice(0, 24)
fallbackPremiumColors(basicAnalysis) ==
    LET baseColors == baseColorsOf(basicAnalysis)
        all == baseColors
               \o [i \in 1..Len(baseColors) |-> lightVariant(baseColors[i])]
               \o [i \in 1..Len(baseColors) |-> deepVariant(baseColors[i])]
    IN  SubSeq(all, 1, Min(24, Len(all)))

generateFallbackPremiumData(basicAnalysis) ==
    Spread(basicAnalysis,
           [premiumColors |-> fallbackPremiumColors(basicAnalysis),
            makeupTips |-> makeupTipsFallback(basicAnalysis),
            wardrobeGuide |-> wardrobeGuideFallback,
            seasonalDetails |->
                [description |-> seasonalDescription(basicAnalysis),
                 characteristics |-> characteristicsFallback,
                 avoidColors |-> avoidColorsFallback]])

fallbackFreeColors ==
    <<[name |-> <<"Soft Pink">>, hex |-> <<"#","F","F","B","6","C","1">>,
       description |-> <<"A universally flattering soft pink that works well for most skin tones">>],
      [name |-> <<"Warm Beige">>, hex |-> <<"#","F","5","F","5","D","C">>,
       description |-> <<"A versatile neutral that complements many complexions">>],
      [name |-> <<"Light Blue">>, hex |-> <<"#","A","D","D","8","E","6">>,
       description |-> <<"A gentle blue that brings out natural brightness">>]>>

\* Variant: the fallback text names the file it was generated for.
generateFallbackAnalysis_NamesFile(fileName, randomSeason) ==
    generateFallbackPremiumData(
        [skinTone |-> fallbackSkinTone(randomSeason) \o <<" (", fileName, ")">>,
         season |-> randomSeason,
         freeColors |-> fallbackFreeColors,
         recommendations |-> fallbackRecommendations(randomSeason)])

\* randomSeason stands for seasons[Math.floor(Math.random() * seasons.length)]
generateFallbackAnalysis(fileName, randomSeason) ==
    generateFallbackPremiumData(
        [skinTone |-> fallbackSkinTone(randomSeason),
         season |-> randomSeason,
         freeColors |-> fallbackFreeColors,
         recommendations |-> fallbackRecommendations(randomSeason)])

-----------------------------------------------------------------------------
(* Upload Retrier: uploadWithRetry *)

PleaseSelect == <<"Please select a valid image file">>
FileTooLarge == <<"File too large: Maximum size is 15MB">>

\* Variant: the size limit excludes a file of exactly the maximum size.
FilePreconditionError_Exclusive(f) ==
    IF f.size = 0 THEN PleaseSelect
    ELSE IF f.size >= MaxFileSize THEN FileTooLarge
    ELSE NoError

\* `validTypes`, the types uploadWithRetry knows
validTypes ==
    {"image/jpeg", "image/jpg", "image/png", "image/webp", "image/gif", "image/bmp"}

\* Variant: a file of a type outside validTypes is rejected.
FilePreconditionError_TypeChecked(f) ==
    IF f.size = 0 THEN PleaseSelect
    ELSE IF f.size > MaxFileSize THEN FileTooLarge
    ELSE IF f.type \notin validTypes THEN <<"Unsupported file type">>
    ELSE NoError

\* Variant: an empty file name is rejected as well.
FilePreconditionError_NameChecked(f) ==
    IF f.size = 0 \/ f.name = "" THEN PleaseSelect
    ELSE IF f.size > MaxFileSize THEN FileTooLarge
    ELSE NoError

\* The checks made before the first attempt: the message of the error thrown,
\* or NoError when the file passes.
FilePreconditionError(f) ==
    IF f.size = 0 THEN PleaseSelect
    ELSE IF f.size > MaxFileSize THEN FileTooLarge
    ELSE NoError

http == <<"h","t","t","p">>

\* What one call of blink.storage.upload can do.
StoreOutcomes ==
    { [kind |-> "throw", message |-> <<"Network request failed">>],
      [kind |-> "throwValue"],
      [kind |-> "undefined"],
      [kind |-> "result", publicUrl |-> <<>>],
      [kind |-> "result", publicUrl |-> <<"f","t","p",":","/","/","s","/","p">>],
      [kind |-> "result", publicUrl |-> <<"h","t","t","p","s",":","/","/","s","/","p">>] }

\* The attempt's try block reaches `return uploadResult`.
AttemptSucceeds(out) ==
    /\ out.kind = "result"
    /\ out.publicUrl # <<>>
    /\ StartsWith(out.publicUrl, http)

\* The message of the error the attempt's catch block receives.
AttemptError(out) ==
    CASE out.kind = "throw" -> out.message
      [] out.kind = "throwValue" -> <<"Upload failed">>
      [] out.kind = "undefined" -> <<"Upload failed: No public URL returned">>
      [] out.kind = "result" /\ out.publicUrl = <<>> ->
            <<"Upload failed: No public URL returned">>
      [] OTHER -> <<"Upload failed: Invalid public URL format">>

\* Variant: only the first failure is remembered.
NextLastError_KeepFirst(previous, message) ==
    IF previous = NoError THEN message ELSE previous

\* `lastError = ...` in the catch block: the latest failure replaces the
\* one remembered before.
NextLastError(previous, message) == message

\* Variant: linear instead of exponential backoff.
BackoffDelay_Linear(n) == n * 1000

\* Math.pow(2, attempt) * 1000
BackoffDelay(n) == (2 ^ n) * 1000

\* Number.prototype.toString for the retry count in the message
NumStr(n) == <<LowerHexDigits[n + 1]>>

\* `Upload failed after ${maxRetries} attempts: ${lastError?.message}`
ExhaustedMessage(n, last) ==
    <<"Upload failed after ">> \o NumStr(n) \o <<" attempts: ">> \o last

-----------------------------------------------------------------------------
(* Primary Analysis Invoker: generateBasicAnalysis *)

defaultColors ==
    <<[name |-> <<"Classic Navy">>, hex |-> <<"#","0","0","0","0","8","0">>,
       description |-> <<"A timeless color that works for most people">>],
      [name |-> <<"Soft Cream">>, hex |-> <<"#","F","5","F","5","D","C">>,
       description |-> <<"A gentle neutral that complements many skin tones">>],
      [name |-> <<"Dusty Rose">>, hex |-> <<"#","D","4","A","5","A","5">>,
       description |-> <<"A universally flattering soft pink tone">>]>>

\* Variant: an empty freeColors list is let through to the padding.
Incomplete_EmptyAllowed(o) ==
    \/ ~Has(o, "skinTone") \/ o.skinTone = <<>>
    \/ ~Has(o, "season") \/ o.season = ""
    \/ ~Has(o, "freeColors")

\* `!result.skinTone || !result.season || !result.freeColors || result.freeColors.length < 1`
Incomplete(o) ==
    \/ ~Has(o, "skinTone") \/ o.skinTone = <<>>
    \/ ~Has(o, "season") \/ o.season = ""
    \/ ~Has(o, "freeColors")
    \/ Len(o.freeColors) < 1

\* Variant: the padding takes the defaults from the head of the list.
PadFreeColors_FromFirst(colors) ==
    IF Len(colors) < 3
    THEN colors \o SubSeq(defaultColors, 1, 3 - Len(colors))
    ELSE colors

\* the `while (result.freeColors.length < 3)` loop
RECURSIVE PadFreeColors(_)
PadFreeColors(colors) ==
    IF Len(colors) < 3
    THEN LET missingIndex == Len(colors)
         IN  IF missingIndex < Len(defaultColors)
             THEN PadFreeColors(Append(colors, defaultColors[missingIndex + 1]))
             ELSE colors
    ELSE colors

\* Variant: the repair prepends '#' to every hex it does not accept.
FixHex_AlwaysPrepends(hex) ==
    IF MatchesHex6(hex) THEN hex
    ELSE LET h1 == <<"#">> \o hex
         IN  IF Len(h1) = 4
             THEN <<"#", h1[2], h1[2], h1[3], h1[3], h1[4], h1[4]>>
             ELSE h1

\* Variant: the repair only prepends '#', it never doubles digits.
FixHex_NoDoubling(hex) ==
    IF MatchesHex6(hex) THEN hex
    ELSE IF StartsWith(hex, <<"#">>) THEN hex ELSE <<"#">> \o hex

\* the body of the `for (const color of result.freeColors)` loop, on color.hex
FixHex(hex) ==
    IF MatchesHex6(hex) THEN hex
    ELSE LET h1 == IF StartsWith(hex, <<"#">>) THEN hex ELSE <<"#">> \o hex
         IN  IF Len(h1) = 4
             THEN <<"#", h1[2], h1[2], h1[3], h1[3], h1[4], h1[4]>>
             ELSE h1

FixColor(color) == [color EXCEPT !.hex = FixHex(color.hex)]

TimedOut == <<"AI analysis timed out after 60 seconds">>
NoResults == <<"AI analysis failed to generate results">>
MatchOfUndefined == <<"Cannot read properties of undefined (reading 'match')">>

Returned(v) == [threw |-> FALSE, value |-> v, error |-> NoError]
Threw(msg) == [threw |-> TRUE, value |-> Null, error |-> msg]

\* The error, if any, the try block of generateBasicAnalysis raises on the
\* settlement `resp` of Promise.race([analysisPromise, timeoutPromise]).
BasicInnerError(resp) ==
    CASE resp.kind = "throw" -> resp.message
      [] resp.kind = "throwValue" -> <<>>
      [] resp.kind = "timeout" -> TimedOut
      [] resp.kind = "noobject" -> NoResults
      [] OTHER ->
           IF ~Incomplete(resp.object)
              /\ \E i \in 1..Len(PadFreeColors(resp.object.freeColors)) :
                     ~Has(PadFreeColors(resp.object.freeColors)[i], "hex")
           THEN MatchOfUndefined
           ELSE NoError

\* `error instanceof Error ? error.message : 'Unknown error'`
BasicErrorMessage(resp) ==
    IF resp.kind = "throwValue" THEN <<"Unknown error">> ELSE BasicInnerError(resp)

\* Variant: the catch block re-raises the error without the prefix.
generateBasicAnalysis_NoPrefix(resp, randomSeason) ==
    IF resp.kind = "throwValue" \/ BasicInnerError(resp) # NoError
    THEN Threw(BasicErrorMessage(resp))
    ELSE IF Incomplete(resp.object)
    THEN Returned(generateFallbackAnalysis("incomplete_ai_result", randomSeason))
    ELSE LET padded == PadFreeColors(resp.object.freeColors)
         IN  Returned([resp.object EXCEPT
                          !.freeColors = [i \in 1..Len(padded) |-> FixColor(padded[i])]])

\* randomSeason is the season generateFallbackAnalysis draws if it is called.
generateBasicAnalysis(resp, randomSeason) ==
    IF resp.kind = "throwValue" \/ BasicInnerError(resp) # NoError
    THEN Threw(<<"AI analysis failed: ">> \o BasicErrorMessage(resp))
    ELSE IF Incomplete(resp.object)
    THEN Returned(generateFallbackAnalysis("incomplete_ai_result", randomSeason))
    ELSE LET padded == PadFreeColors(resp.object.freeColors)
         IN  Returned([resp.object EXCEPT
                          !.freeColors = [i \in 1..Len(padded) |-> FixColor(padded[i])]])

-----------------------------------------------------------------------------
(* Enrichment Invoker: generateEnhancedAnalysis *)

\* Variant: on a clash of fields the basic result wins the merge.
generateEnhancedAnalysis_BasicWins(basicAnalysis, resp) ==
    IF resp.kind = "object"
    THEN Spread(resp.object, basicAnalysis)
    ELSE generateFallbackPremiumData(basicAnalysis)

\* Variant: a failed enrichment returns the basic result as it is.
generateEnhancedAnalysis_NoFallback(basicAnalysis, resp) ==
    IF resp.kind = "object"
    THEN Spread(basicAnalysis, resp.object)
    ELSE basicAnalysis

generateEnhancedAnalysis(basicAnalysis, resp) ==
    IF resp.kind = "object"
    THEN Spread(basicAnalysis, resp.object)
    ELSE generateFallbackPremiumData(basicAnalysis)

-----------------------------------------------------------------------------
(* The inputs: files, and what the AI calls answer *)

Files ==
    { [size |-> 0,        name |-> "empty.jpg", type |-> "image/jpeg"],
      [size |-> 2097152,  name |-> "photo.jpg", type |-> "image/jpeg"],
      [size |-> 14680064, name |-> "large.jpg", type |-> "image/jpeg"],
      [size |-> 15728640, name |-> "limit.jpg", type |-> "image/jpeg"],
      [size |-> 15728641, name |-> "over.jpg",  type |-> "image/jpeg"],
      [size |-> 16777216, name |-> "huge.jpg",  type |-> "image/jpeg"],
      [size |-> 2097152,  name |-> "",          type |-> "image/jpeg"],
      [size |-> 2097152,  name |-> "notes.txt", type |-> "text/plain"] }

HeadOutcomes == {"ok", "notok", "throw"}

Remove(o, k) == [f \in DOMAIN o \ {k} |-> o[f]]

\* hex strings the AI may put in a color
HexInputs ==
    { <<"#","A","1","b","2","C","3">>,
      <<"a","b","c">>,
      <<"#","a","b","c">>,
      <<"1","2","3","4","5","6">>,
      <<"z","z","z">>,
      <<"#","1","2","3","4","5">> }

aiColor(i, hex) ==
    [name |-> <<"AI color ", NumStr(i)[1]>>, hex |-> hex,
     description |-> <<"Why this color works">>]

FirstColors ==
    {aiColor(1, h) : h \in HexInputs} \cup {Remove(aiColor(1, <<>>), "hex")}

FreeColorInputs ==
    {<<>>} \cup
    { [i \in 1..k |-> IF i = 1 THEN c ELSE aiColor(i, <<"#","3","3","6","6","9","9">>)] :
        k \in 1..MaxAIColors, c \in FirstColors }

aiRecommendations == <<<<"Wear warm tones">>, <<"Avoid icy pastels">>, <<"Prefer gold jewelry">>>>

CanonicalObject ==
    [skinTone |-> <<"warm">>, season |-> "Autumn",
     freeColors |-> [i \in 1..3 |-> aiColor(i, <<"#","3","3","6","6","9","9">>)],
     recommendations |-> aiRecommendations]

PrimaryObjects ==
    { [CanonicalObject EXCEPT !.season = s, !.freeColors = fc] :
        s \in Seasons \cup {"Fall"}, fc \in FreeColorInputs }
    \cup { Remove(CanonicalObject, k) : k \in DOMAIN CanonicalObject }
    \cup { [CanonicalObject EXCEPT !.skinTone = <<>>], [CanonicalObject EXCEPT !.season = ""] }

PrimaryResponses ==
    { [kind |-> "throw", message |-> <<"Model request failed">>],
      [kind |-> "throwValue"],
      [kind |-> "timeout"],
      [kind |-> "noobject"] }
    \cup { [kind |-> "object", object |-> o] : o \in PrimaryObjects }

premiumColor(i, hex) ==
    [name |-> <<"Premium ", NumStr(i \div 10)[1], NumStr(i % 10)[1]>>, hex |-> hex,
     description |-> <<"Premium color">>,
     category |-> <<"neutral", "accent", "statement", "soft">>[(i % 4) + 1]]

FullEnrichment ==
    [premiumColors |-> [i \in 1..20 |-> premiumColor(i, <<"#","1","0","2","0","3","0">>)],
     makeupTips |-> [i \in 1..8 |-> <<"Makeup tip">>],
     wardrobeGuide |-> [i \in 1..10 |-> <<"Wardrobe entry">>],
     seasonalDetails |->
        [description |-> <<"Seasonal description">>,
         characteristics |-> [i \in 1..5 |-> <<"Characteristic">>],
         avoidColors |-> [i \in 1..5 |-> <<"Avoid">>]]]

EnrichObjects ==
    { FullEnrichment,
      [x \in {} |-> x],
      [FullEnrichment EXCEPT !.premiumColors[1].hex = <<"r","e","d">>],
      [FullEnrichment EXCEPT !.premiumColors = <<premiumColor(1, <<"#","1","0","2","0","3","0">>)>>],
      Spread(FullEnrichment,
             [freeColors |-> [i \in 1..4 |-> aiColor(i, <<"#","3","3","6","6","9","9">>)]]) }
    \cup { Remove(FullEnrichment, k) : k \in DOMAIN FullEnrichment }

EnrichResponses ==
    { [kind |-> "throw"], [kind |-> "noobject"] }
    \cup { [kind |-> "object", object |-> o] : o \in EnrichObjects }

-----------------------------------------------------------------------------
(* validateFileUpload of utils/security.ts *)

UpperLetters == <<"A","B","C","D","E","F","G","H","I","J","K","L","M",
                  "N","O","P","Q","R","S","T","U","V","W","X","Y","Z">>
LowerLetters == <<"a","b","c","d","e","f","g","h","i","j","k","l","m",
                  "n","o","p","q","r","s","t","u","v","w","x","y","z">>

\* one character, lower-cased: what the `i` flag of a pattern compares
lowerChar(c) ==
    IF \E i \in 1..26 : UpperLetters[i] = c
    THEN LowerLetters[CHOOSE i \in 1..26 : UpperLetters[i] = c]
    ELSE c

\* /<ext>$/i.test(name), for a literal extension
EndsWithIgnoringCase(name, ext) ==
    /\ Len(name) >= Len(ext)
    /\ \A i \in 1..Len(ext) :
           lowerChar(name[Len(name) - Len(ext) + i]) = lowerChar(ext[i])

allowedTypes ==
    {"image/jpeg", "image/jpg", "image/png", "image/webp", "image/gif", "image/bmp",
     "image/tiff"}

\* `maxSize = 15 * 1024 * 1024`
maxSize == 15728640

\* the extensions of `suspiciousPatterns`
suspiciousPatterns ==
    { <<".","p","h","p">>, <<".","e","x","e">>,
      <<".","b","a","t">>, <<".","s","h">>,
      <<".","c","m","d">>, <<".","s","c","r">>,
      <<".","c","o","m">>, <<".","p","i","f">>,
      <<".","v","b","s">>, <<".","j","s">>,
      <<".","j","a","r">> }

InvalidFileType ==
    <<"Invalid file type. Please upload a JPG, PNG, WebP, GIF, BMP, or TIFF image.">>
FileSizeTooLarge ==
    <<"File size too large. Please upload an image smaller than 15MB.">>
InvalidFileName == <<"Invalid file name. Please rename your image file.">>

\* Variant: a file of exactly maxSize is rejected.
validateFileUpload_SizeExclusive(f) ==
    IF f.type \notin allowedTypes
    THEN [isValid |-> FALSE, error |-> InvalidFileType]
    ELSE IF f.size >= maxSize
    THEN [isValid |-> FALSE, error |-> FileSizeTooLarge]
    ELSE IF \E ext \in suspiciousPatterns : EndsWithIgnoringCase(f.name, ext)
    THEN [isValid |-> FALSE, error |-> InvalidFileName]
    ELSE [isValid |-> TRUE]

\* f is [type, size, name], the name a sequence of characters
validateFileUpload(f) ==
    IF f.type \notin allowedTypes
    THEN [isValid |-> FALSE, error |-> InvalidFileType]
    ELSE IF f.size > maxSize
    THEN [isValid |-> FALSE, error |-> FileSizeTooLarge]
    ELSE IF \E ext \in suspiciousPatterns : EndsWithIgnoringCase(f.name, ext)
    THEN [isValid |-> FALSE, error |-> InvalidFileName]
    ELSE [isValid |-> TRUE]

\* The files validateFileUpload is called on.
UploadTypes ==
    allowedTypes \cup {"text/plain", "image/svg+xml", "IMAGE/JPEG", ""}

UploadSizes == {0, 4, 14680064, 15728640, 15728641, 16777216}

UploadNames ==
    { <<"p","h","o","t","o",".","j","p","g">>,
      <<"t","e","s","t",".","t","x","t">>,
      <<"s","h","e","l","l",".","p","h","p">>,
      <<"S","H","E","L","L",".","P","H","P">>,
      <<"r","u","n",".","E","x","e">>,
      <<"a",".","b","a","t">>,
      <<"a",".","s","h">>,
      <<"x",".","c","m","d">>,
      <<"s",".","s","c","r">>,
      <<"c",".","c","o","m">>,
      <<"p",".","p","i","f">>,
      <<"v",".","v","b","s">>,
      <<"a","p","p",".","j","s">>,
      <<"l","i","b",".","j","a","r">>,
      <<"a","p","p",".","j","s","x">>,
      <<"p","h","p">>,
      <<"e","v","i","l",".","p","h","p",".","j","p","g">>,
      <<>> }

UploadFiles ==
    { [type |-> t, size |-> n, name |-> nm] :
        t \in UploadTypes, n \in UploadSizes, nm \in UploadNames }

------------------------------------------------------------------------------
(* analyzePhotoWithAI *)

Init ==
    /\ pc = "validate"
    /\ file \in Files
    /\ attempt = 1
    /\ lastError = NoError
    /\ storeCalls = 0
    /\ waits = <<>>
    /\ lastOutcome = Null
    /\ publicUrl = <<>>
    /\ uploadError = NoError
    /\ headCalls = 0
    /\ aiCalls = 0
    /\ enrichCalls = 0
    /\ primary = Null
    /\ basic = Null
    /\ enrichKind = "none"
    /\ enrichment = Null
    /\ headResult = "none"
    /\ race = "idle"
    /\ caught = NoError
    /\ result = Null
    /\ outcome = "pending"
    /\ NoFunctionCall /\ NoApp /\ NoLimiter /\ NoLogger

\* Variant: the error is thrown on to the caller.
CatchAtTop_Rethrow(message) ==
    /\ caught' = message
    /\ result' = Null
    /\ outcome' = "rejected"
    /\ pc' = "done"

\* The catch block of analyzePhotoWithAI: whatever was thrown, the call
\* resolves with generateFallbackAnalysis(file.name).
CatchAtTop(message) ==
    /\ caught' = message
    /\ \E randomSeason \in Seasons :
           result' = generateFallbackAnalysis(file.name, randomSeason)
    /\ outcome' = "resolved"
    /\ pc' = "done"

\* uploadWithRetry up to the first iteration of its loop.
UploadValidate ==
    /\ pc = "validate"
    /\ LET err == FilePreconditionError(file)
       IN  IF err # NoError
           THEN /\ uploadError' = err
                /\ CatchAtTop(err)
           ELSE /\ pc' = "attempt"
                /\ UNCHANGED <<uploadError, caught, result, outcome>>
    /\ UNCHANGED <<file, attempt, lastError, storeCalls, waits, lastOutcome, publicUrl,
                   headCalls, aiCalls, enrichCalls, primary, basic, enrichKind,
                   enrichment, headResult, race>>
    /\ UNCHANGED <<fnVars, appVars, limiterVars, loggerVars>>

\* One iteration of the retry loop up to its await of the timer, or up to the
\* return, or, on the last iteration, up to the throw after the loop.
UploadAttempt ==
    /\ pc = "attempt"
    /\ attempt <= maxRetries
    /\ \E out \in StoreOutcomes :
        /\ storeCalls' = storeCalls + 1
        /\ lastOutcome' = out
        /\ IF AttemptSucceeds(out)
           THEN /\ publicUrl' = out.publicUrl
                /\ lastError' = NoError
                /\ pc' = "head"
                /\ UNCHANGED <<uploadError, caught, result, outcome>>
           ELSE LET last == NextLastError(lastError, AttemptError(out))
                IN  /\ lastError' = last
                    /\ UNCHANGED publicUrl
                    /\ IF attempt < maxRetries
                       THEN /\ pc' = "backoff"
                            /\ UNCHANGED <<uploadError, caught, result, outcome>>
                       ELSE /\ uploadError' = ExhaustedMessage(maxRetries, last)
                            /\ CatchAtTop(ExhaustedMessage(maxRetries, last))
    /\ UNCHANGED <<file, attempt, waits, headCalls, aiCalls, enrichCalls, primary, basic,
                   enrichKind, enrichment, headResult, race>>
    /\ UNCHANGED <<fnVars, appVars, limiterVars, loggerVars>>

\* The backoff timer fires and the loop goes to its next iteration.
UploadBackoff ==
    /\ pc = "backoff"
    /\ waits' = Append(waits, BackoffDelay(attempt))
    /\ attempt' = attempt + 1
    /\ pc' = "attempt"
    /\ UNCHANGED <<file, lastError, storeCalls, lastOutcome, publicUrl, uploadError,
                   headCalls, aiCalls, enrichCalls, primary, basic, enrichKind,
                   enrichment, headResult, race, caught, result, outcome>>
    /\ UNCHANGED <<fnVars, appVars, limiterVars, loggerVars>>

NotAccessible == <<"Uploaded image is not accessible. Please try again.">>

\* Variant: the pipeline goes on to the AI call whatever the HEAD request gave.
UrlCheck_Proceeds ==
    /\ pc = "head"
    /\ headCalls' = headCalls + 1
    /\ \E head \in HeadOutcomes : headResult' = head
    /\ pc' = "basic"
    /\ UNCHANGED <<file, attempt, lastError, storeCalls, waits, lastOutcome, publicUrl,
                   uploadError, aiCalls, enrichCalls, primary, basic, enrichKind,
                   enrichment, race, caught, result, outcome>>
    /\ UNCHANGED <<fnVars, appVars, limiterVars, loggerVars>>

\* fetch(publicUrl, { method: 'HEAD' }) and the check of response.ok.
UrlCheck ==
    /\ pc = "head"
    /\ headCalls' = headCalls + 1
    /\ \E head \in HeadOutcomes :
        /\ headResult' = head
        /\ IF head = "ok"
           THEN /\ pc' = "basic"
                /\ UNCHANGED <<caught, result, outcome>>
           ELSE CatchAtTop(NotAccessible)
    /\ UNCHANGED <<file, attempt, lastError, storeCalls, waits, lastOutcome, publicUrl,
                   uploadError, aiCalls, enrichCalls, primary, basic, enrichKind,
                   enrichment, race>>
    /\ UNCHANGED <<fnVars, appVars, limiterVars, loggerVars>>

\* What blink.ai.generateObject itself can do: every settlement of the race
\* but the timer's.
AiSettlements == {r \in PrimaryResponses : r.kind # "timeout"}

\* generateBasicAnalysis is called: it arms the 60 s timer, issues the AI
\* request and awaits Promise.race([analysisPromise, timeoutPromise]).
BasicStart ==
    /\ pc = "basic"
    /\ aiCalls' = aiCalls + 1
    /\ race' = "pending"
    /\ pc' = "race"
    /\ UNCHANGED <<file, attempt, lastError, storeCalls, waits, lastOutcome, publicUrl,
                   uploadError, headCalls, enrichCalls, primary, basic, enrichKind,
                   enrichment, headResult, caught, result, outcome>>
    /\ UNCHANGED <<fnVars, appVars, limiterVars, loggerVars>>

\* The rest of generateBasicAnalysis on the settlement `resp` of the race, and
\* the return to analyzePhotoWithAI.

BasicContinue(resp) ==
    \E randomSeason \in Seasons :
        LET r == generateBasicAnalysis(resp, randomSeason)
        IN  /\ primary' = resp
            /\ IF r.threw
               THEN /\ CatchAtTop(r.error)
                    /\ UNCHANGED basic
               ELSE /\ basic' = r.value
                    /\ pc' = "enhance"
                    /\ UNCHANGED <<caught, result, outcome>>

\* The AI call settles before the timer fires.
BasicAnalysis ==
    /\ pc = "race"
    /\ race = "pending"
    /\ race' = "aiWon"
    /\ \E resp \in AiSettlements : BasicContinue(resp)
    /\ UNCHANGED <<file, attempt, lastError, storeCalls, waits, lastOutcome, publicUrl,
                   uploadError, headCalls, aiCalls, enrichCalls, enrichKind, enrichment,
                   headResult>>
    /\ UNCHANGED <<fnVars, appVars, limiterVars, loggerVars>>

\* The timer fires before the AI call settles.
BasicTimeout ==
    /\ pc = "race"
    /\ race = "pending"
    /\ race' = "timerWon"
    /\ BasicContinue([kind |-> "timeout"])
    /\ UNCHANGED <<file, attempt, lastError, storeCalls, waits, lastOutcome, publicUrl,
                   uploadError, headCalls, aiCalls, enrichCalls, enrichKind, enrichment,
                   headResult>>
    /\ UNCHANGED <<fnVars, appVars, limiterVars, loggerVars>>

\* Variant: a timer firing after the AI call won still raises the timeout.
TimerFiresLate_Overrides ==
    /\ race = "aiWon"
    /\ race' = "aiWonTimerFired"
    /\ CatchAtTop(<<"AI analysis failed: ">> \o TimedOut)
    /\ UNCHANGED <<file, attempt, lastError, storeCalls, waits, lastOutcome, publicUrl,
                   uploadError, headCalls, aiCalls, enrichCalls, primary, basic,
                   enrichKind, enrichment, headResult>>
    /\ UNCHANGED <<fnVars, appVars, limiterVars, loggerVars>>

\* The timer fires after the AI call won the race: timeoutPromise rejects, and
\* the race, already settled, ignores it.
TimerFiresLate ==
    /\ race = "aiWon"
    /\ race' = "aiWonTimerFired"
    /\ UNCHANGED <<pc, file, attempt, lastError, storeCalls, waits, lastOutcome, publicUrl,
                   uploadError, headCalls, aiCalls, enrichCalls, primary, basic,
                   enrichKind, enrichment, headResult, caught, result, outcome>>
    /\ UNCHANGED <<fnVars, appVars, limiterVars, loggerVars>>

\* The AI call, never cancelled, settles after the timer won the race.
AiSettlesLate ==
    /\ race = "timerWon"
    /\ \E resp \in AiSettlements : race' = "timerWonAiSettled"
    /\ UNCHANGED <<pc, file, attempt, lastError, storeCalls, waits, lastOutcome, publicUrl,
                   uploadError, headCalls, aiCalls, enrichCalls, primary, basic,
                   enrichKind, enrichment, headResult, caught, result, outcome>>
    /\ UNCHANGED <<fnVars, appVars, limiterVars, loggerVars>>

\* `await generateEnhancedAnalysis(basicAnalysis)` and `return enhancedAnalysis`
EnhancedAnalysis ==
    /\ pc = "enhance"
    /\ enrichCalls' = enrichCalls + 1
    /\ \E resp \in EnrichResponses :
        /\ enrichKind' = resp.kind
        /\ enrichment' = resp
        /\ result' = generateEnhancedAnalysis(basic, resp)
    /\ outcome' = "resolved"
    /\ pc' = "done"
    /\ UNCHANGED <<file, attempt, lastError, storeCalls, waits, lastOutcome, publicUrl,
                   uploadError, headCalls, aiCalls, primary, basic, headResult, race,
                   caught>>
    /\ UNCHANGED <<fnVars, appVars, limiterVars, loggerVars>>

Next ==
    \/ UploadValidate
    \/ UploadAttempt
    \/ UploadBackoff
    \/ UrlCheck
    \/ BasicStart
    \/ BasicAnalysis
    \/ BasicTimeout
    \/ EnhancedAnalysis
    \/ TimerFiresLate
    \/ AiSettlesLate

Spec == Init /\ [][Next]_allVars

------------------------------------------------------------------------------
(* Calls of the pure functions: validateFileUpload, lightenColor,          *)
(* darkenColor and the hex repair of generateBasicAnalysis                 *)

\* Longest hex string given to the hex repair.
MaxHexLen == 7

\* '#', a lower-case digit, an upper-case digit, a character that is no digit
HexAlphabet == {"#", "a", "F", "z"}

RECURSIVE StringsOver(_, _)
StringsOver(alphabet, n) ==
    IF n = 0 THEN {<<>>}
    ELSE LET shorter == StringsOver(alphabet, n - 1)
         IN  shorter \cup {Append(s, c) : s \in {t \in shorter : Len(t) = n - 1},
                                          c \in alphabet}

\* one colour channel as two hex digits
ChannelDigits ==
    { <<"0","0">>, <<"0","1">>, <<"0","f">>, <<"2","7">>, <<"2","8">>, <<"2","9">>,
      <<"8","0">>, <<"D","7">>, <<"d","8">>, <<"f","f">>, <<"F","F">> }

SixDigitColors ==
    { <<"#">> \o r \o g \o b : r \in ChannelDigits, g \in ChannelDigits, b \in ChannelDigits }

FnArgs ==
    { [kind |-> "file", value |-> f] : f \in UploadFiles }
    \cup { [kind |-> "color", value |-> c] : c \in SixDigitColors }
    \cup { [kind |-> "hex", value |-> h] : h \in StringsOver(HexAlphabet, MaxHexLen) }

FnInit ==
    /\ fnCall = "none"
    /\ fnArg \in FnArgs
    /\ fnRes = Null
    /\ NoPipeline /\ NoApp /\ NoLimiter /\ NoLogger

CallValidateFileUpload ==
    /\ fnCall = "none"
    /\ fnArg.kind = "file"
    /\ fnRes' = validateFileUpload(fnArg.value)
    /\ fnCall' = "validateFileUpload"
    /\ UNCHANGED <<fnArg, vars, appVars, limiterVars, loggerVars>>

CallLightenColor ==
    /\ fnCall = "none"
    /\ fnArg.kind = "color"
    /\ fnRes' = lightenColor(fnArg.value)
    /\ fnCall' = "lightenColor"
    /\ UNCHANGED <<fnArg, vars, appVars, limiterVars, loggerVars>>

CallDarkenColor ==
    /\ fnCall = "none"
    /\ fnArg.kind = "color"
    /\ fnRes' = darkenColor(fnArg.value)
    /\ fnCall' = "darkenColor"
    /\ UNCHANGED <<fnArg, vars, appVars, limiterVars, loggerVars>>

\* the hex repair on one color.hex
CallHexRepair ==
    /\ fnCall = "none"
    /\ fnArg.kind = "hex"
    /\ fnRes' = FixHex(fnArg.value)
    /\ fnCall' = "repair"
    /\ UNCHANGED <<fnArg, vars, appVars, limiterVars, loggerVars>>

\* the hex repair on the hex an earlier repair produced
CallHexRepairAgain ==
    /\ fnCall = "repair"
    /\ fnArg' = [kind |-> "hex", value |-> fnRes]
    /\ fnRes' = FixHex(fnRes)
    /\ fnCall' = "repairAgain"
    /\ UNCHANGED <<vars, appVars, limiterVars, loggerVars>>

FnNext ==
    \/ CallValidateFileUpload
    \/ CallLightenColor
    \/ CallDarkenColor
    \/ CallHexRepair
    \/ CallHexRepairAgain

FnSpec == FnInit /\ [][FnNext]_allVars

------------------------------------------------------------------------------
(* RateLimiter of utils/security.ts *)

\* Latest time the clock reaches.
MaxTime == 4

Identifiers == {"user_1", "user_2"}

\* `this.attempts.get(identifier) || []`
AttemptsOf(identifier) ==
    IF identifier \in DOMAIN attempts THEN attempts[identifier] ELSE <<>>

\* `attempts.filter(time => now - time < this.windowMs)`
InWindow(time) == now - time < windowMs

validAttempts(identifier) == SelectSeq(AttemptsOf(identifier), InWindow)

\* this.attempts.set(identifier, value)
MapSet(map, key, value) ==
    [k \in DOMAIN map \cup {key} |-> IF k = key THEN value ELSE map[k]]

LimiterInit ==
    /\ maxAttempts \in {1, 2}
    /\ windowMs \in {2, 3}
    /\ attempts = <<>>
    /\ now = 0
    /\ granted = [id \in Identifiers |-> <<>>]
    /\ lastCall = Null
    /\ NoPipeline /\ NoFunctionCall /\ NoApp /\ NoLogger

\* Variant: a refused call is recorded like a granted one.
isAllowed_RecordsRefusal(identifier) ==
    /\ attempts' = MapSet(attempts, identifier, Append(validAttempts(identifier), now))
    /\ IF Len(validAttempts(identifier)) >= maxAttempts
       THEN /\ lastCall' = [op |-> "isAllowed", identifier |-> identifier, answer |-> FALSE]
            /\ UNCHANGED granted
       ELSE /\ lastCall' = [op |-> "isAllowed", identifier |-> identifier, answer |-> TRUE]
            /\ granted' = [granted EXCEPT ![identifier] = Append(@, now)]
    /\ UNCHANGED <<maxAttempts, windowMs, now>>
    /\ UNCHANGED <<vars, fnVars, appVars, loggerVars>>

isAllowed(identifier) ==
    /\ IF Len(validAttempts(identifier)) >= maxAttempts
       THEN /\ lastCall' = [op |-> "isAllowed", identifier |-> identifier, answer |-> FALSE]
            /\ UNCHANGED <<attempts, granted>>
       ELSE /\ attempts' = MapSet(attempts, identifier,
                                  Append(validAttempts(identifier), now))
            /\ lastCall' = [op |-> "isAllowed", identifier |-> identifier, answer |-> TRUE]
            /\ granted' = [granted EXCEPT ![identifier] = Append(@, now)]
    /\ UNCHANGED <<maxAttempts, windowMs, now>>
    /\ UNCHANGED <<vars, fnVars, appVars, loggerVars>>

\* Math.max(0, this.maxAttempts - validAttempts.length)
RemainingAttempts(identifier) ==
    IF maxAttempts - Len(validAttempts(identifier)) > 0
    THEN maxAttempts - Len(validAttempts(identifier))
    ELSE 0

getRemainingAttempts(identifier) ==
    /\ lastCall' = [op |-> "getRemainingAttempts", identifier |-> identifier,
                    answer |-> RemainingAttempts(identifier)]
    /\ UNCHANGED <<maxAttempts, windowMs, attempts, now, granted>>
    /\ UNCHANGED <<vars, fnVars, appVars, loggerVars>>

IsAllowedCall == \E identifier \in Identifiers : isAllowed(identifier)

GetRemainingAttemptsCall == \E identifier \in Identifiers : getRemainingAttempts(identifier)

\* Time passes between two calls.
ClockAdvances ==
    /\ now < MaxTime
    /\ \E later \in (now + 1)..MaxTime : now' = later
    /\ UNCHANGED <<maxAttempts, windowMs, attempts, granted, lastCall>>
    /\ UNCHANGED <<vars, fnVars, appVars, loggerVars>>

LimiterNext ==
    \/ IsAllowedCall
    \/ GetRemainingAttemptsCall
    \/ ClockAdvances

LimiterSpec == LimiterInit /\ [][LimiterNext]_allVars

------------------------------------------------------------------------------
(* ErrorLogger of utils/admin.ts.  An entry is the number of the logError   *)
(* call that made it; entries left by earlier page loads are 0, -1, -2, ... *)

\* Number of logError calls made at most.
MaxLogCalls == 52

\* `private maxLogs = 100`
maxLogs == 100

\* `this.logs.slice(0, 50)`
persistedLogs == 50

\* array.slice(0, n)
SliceTo(list, n) == SubSeq(list, 1, Min(n, Len(list)))

\* What localStorage holds under 'error_logs' when the page loads: nothing, or
\* the list an earlier page load persisted.
StoredAtLoad == { [i \in 1..n |-> 1 - i] : n \in {0, 1, persistedLogs} }

\* `errorLogger.loadPersistedLogs()` at module load
LoggerInit ==
    /\ persisted \in StoredAtLoad
    /\ logs = persisted
    /\ logCalls = 0
    /\ loggerOp = "load"
    /\ setItemThrew = FALSE
    /\ NoPipeline /\ NoFunctionCall /\ NoApp /\ NoLimiter

\* persistLogs: setItem stores the slice, or throws and the error is ignored
persistLogs(list) ==
    \/ /\ persisted' = SliceTo(list, persistedLogs)
       /\ setItemThrew' = FALSE
    \/ /\ UNCHANGED persisted
       /\ setItemThrew' = TRUE

\* Variant: the new entry is put at the end of the list.
logError_Appends ==
    /\ logCalls < MaxLogCalls
    /\ logCalls' = logCalls + 1
    /\ LET added == Append(logs, logCalls + 1)
           kept == IF Len(added) > maxLogs THEN SliceTo(added, maxLogs) ELSE added
       IN  /\ logs' = kept
           /\ persistLogs(kept)
    /\ loggerOp' = "logError"
    /\ UNCHANGED <<vars, fnVars, appVars, limiterVars>>

logError ==
    /\ logCalls < MaxLogCalls
    /\ logCalls' = logCalls + 1
    /\ LET added == <<logCalls + 1>> \o logs
           kept == IF Len(added) > maxLogs THEN SliceTo(added, maxLogs) ELSE added
       IN  /\ logs' = kept
           /\ persistLogs(kept)
    /\ loggerOp' = "logError"
    /\ UNCHANGED <<vars, fnVars, appVars, limiterVars>>

clearLogs ==
    /\ logs' = <<>>
    /\ persisted' = <<>>
    /\ loggerOp' = "clearLogs"
    /\ UNCHANGED <<logCalls, setItemThrew>>
    /\ UNCHANGED <<vars, fnVars, appVars, limiterVars>>

LoggerNext ==
    \/ logError
    \/ clearLogs

LoggerSpec == LoggerInit /\ [][LoggerNext]_allVars

-----------------------------------------------------------------------------
(* App of src/App.tsx: the state of the signed-in view and its handlers *)

\* Largest number of analyzePhoto calls made in one page session.
MaxAnalyses == 7

\* Largest number of analyzePhoto calls awaiting analyzePhotoWithAI at once.
MaxInFlight == 2

\* `user.id` of the signed-in user (the view is rendered only when `user` is set).
UserId == "user_1"

\* RateLimiter(5, 15 * 60 * 1000)
analysisMaxAttempts == 5
analysisWindowMs == 900000

\* The files the UploadZone hands to onFileSelect: it calls onFileSelect(file)
\* only when validateFileUpload(file).isValid.
SelectableFiles ==
    { f \in { [type |-> "image/jpeg", size |-> 4,
               name |-> <<"p","h","o","t","o",".","j","p","g">>],
              [type |-> "image/png", size |-> 0,
               name |-> <<"a","p","p",".","j","s","x">>] } :
        validateFileUpload(f).isValid }

BasicOfSpring ==
    [skinTone |-> fallbackSkinTone("Spring"),
     season |-> "Spring",
     freeColors |-> fallbackFreeColors,
     recommendations |-> fallbackRecommendations("Spring")]

\* What `await analyzePhotoWithAI(file, user.id)` resolves with: the call never
\* rejects (its catch block returns generateFallbackAnalysis(file.name)).
ResolvedAnalyses(f) ==
    IF FilePreconditionError(f) # NoError
    THEN { generateFallbackAnalysis(f.name, "Spring") }
    ELSE { generateFallbackAnalysis(f.name, "Spring"),
           generateEnhancedAnalysis(BasicOfSpring,
               [kind |-> "object", object |-> FullEnrichment]),
           generateEnhancedAnalysis(BasicOfSpring,
               [kind |-> "object",
                object |-> [FullEnrichment EXCEPT !.premiumColors =
                               <<premiumColor(1, <<"#","1","0","2","0","3","0">>)>>]]) }

\* `?success=true&analysis_id=...` and the other addresses the page is opened with
Locations ==
    { [success |-> "true", analysis_id |-> "analysis_1"],
      [success |-> "true"],
      [canceled |-> "true"],
      [x \in {} |-> x] }

\* The tabs of a user for whom isAdmin(user.email) is false.
Tabs == {"new", "dashboard"}

RateLimitExceeded == <<"Rate limit exceeded. You can try again in a few minutes. Remaining attempts: 0">>

\* The catch block's choice of message: 'rate limit' is tested first; the
\* messages of validateFileUpload contain none of 'rate limit', 'quota',
\* 'network', 'fetch', 'connection' and all contain 'image'.
userFriendlyMessage(message) ==
    IF message = RateLimitExceeded
    THEN <<"Service temporarily unavailable. Please try again in a few minutes.">>
    ELSE IF message \in {InvalidFileType, FileSizeTooLarge, InvalidFileName}
    THEN <<"Unable to process this image. Please try a different photo with good lighting.">>
    ELSE message

AppInit ==
    /\ NoApp
    /\ maxAttempts = analysisMaxAttempts
    /\ windowMs = analysisWindowMs
    /\ attempts = <<>>
    /\ now = 0
    /\ granted = <<>>
    /\ lastCall = Null
    /\ logs = <<>>
    /\ persisted = <<>>
    /\ logCalls = 0
    /\ loggerOp = "load"
    /\ setItemThrew = FALSE
    /\ NoPipeline /\ NoFunctionCall

\* What the render function shows on the 'new' tab.
HeroRendered == activeTab = "new" /\ selectedFile = Null /\ analysisResult = Null

AnalysisViewRendered == activeTab = "new" /\ selectedFile # Null

ErrorCardRendered == AnalysisViewRendered /\ error # NoError

ColorResultsRendered ==
    AnalysisViewRendered /\ analysisResult # Null /\ ~isPremiumUnlocked /\ error = NoError

PremiumResultsRendered ==
    AnalysisViewRendered /\ analysisResult # Null /\ isPremiumUnlocked /\ error = NoError

\* ColorResults: results.premiumColors.slice(0, 8)
PreviewColors(results) == SliceTo(results.premiumColors, 8)

\* n calls of errorLogger.logError (logAnalysisError, logUploadError)
LogErrors(n) ==
    LET added == [i \in 1..n |-> logCalls + n + 1 - i] \o logs
        kept == IF Len(added) > maxLogs THEN SliceTo(added, maxLogs) ELSE added
    IN  /\ logCalls' = logCalls + n
        /\ logs' = kept
        /\ persistLogs(kept)
        /\ loggerOp' = "logError"

\* analyzePhoto(file) up to its `await`: everything before the await runs in
\* the handler that called it, the catch and finally blocks included when the
\* rate limiter or the validation throws.
analyzePhoto(f) ==
    LET allowed == Len(validAttempts(UserId)) < maxAttempts
        validation == validateFileUpload(f)
    IN  /\ started' = started + 1
        /\ attempts' = IF allowed
                       THEN MapSet(attempts, UserId, Append(validAttempts(UserId), now))
                       ELSE attempts
        /\ UNCHANGED <<maxAttempts, windowMs, now, granted, lastCall>>
        /\ IF ~allowed
           THEN /\ LogErrors(1)
                /\ error' = userFriendlyMessage(RateLimitExceeded)
                /\ isAnalyzing' = FALSE
                /\ UNCHANGED <<inFlight, overlapped>>
           ELSE IF ~validation.isValid
           THEN /\ LogErrors(2)
                /\ error' = userFriendlyMessage(validation.error)
                /\ isAnalyzing' = FALSE
                /\ UNCHANGED <<inFlight, overlapped>>
           ELSE /\ UNCHANGED loggerVars
                /\ error' = NoError
                /\ isAnalyzing' = TRUE
                /\ inFlight' = inFlight \cup {[id |-> started + 1, file |-> f]}
                /\ overlapped' = (overlapped \/ inFlight # {})

\* The mount effect: reads the address the page was opened with.
MountEffect ==
    /\ ~mounted
    /\ mounted' = TRUE
    /\ \E urlParams \in Locations :
           isPremiumUnlocked' =
               (/\ Has(urlParams, "success")
                /\ urlParams.success = "true"
                /\ Has(urlParams, "analysis_id"))
    /\ UNCHANGED <<selectedFile, isAnalyzing, analysisResult, showPricingModal,
                   currentAnalysisId, activeTab, error, inFlight, started,
                   resultFile, overlapped>>
    /\ UNCHANGED <<vars, fnVars, limiterVars, loggerVars>>

\* onFileSelect of the hero's UploadZone, called with a file
SelectFile ==
    /\ mounted
    /\ HeroRendered
    /\ started < MaxAnalyses
    /\ Cardinality(inFlight) < MaxInFlight
    /\ \E f \in SelectableFiles :
           /\ selectedFile' = f
           /\ analyzePhoto(f)
    /\ UNCHANGED <<analysisResult, isPremiumUnlocked, showPricingModal,
                   currentAnalysisId, activeTab, resultFile, mounted>>
    /\ UNCHANGED <<vars, fnVars>>

\* UploadZone.clearFile: onFileSelect(null); the button is shown when a file
\* is selected and isAnalyzing is false.
ClearFile ==
    /\ mounted
    /\ AnalysisViewRendered
    /\ ~isAnalyzing
    /\ selectedFile' = Null
    /\ UNCHANGED <<isAnalyzing, analysisResult, isPremiumUnlocked, showPricingModal,
                   currentAnalysisId, activeTab, error, inFlight, started,
                   resultFile, overlapped, mounted>>
    /\ UNCHANGED <<vars, fnVars, limiterVars, loggerVars>>

\* The 'Try Again' button of the error card
TryAgain ==
    /\ mounted
    /\ ErrorCardRendered
    /\ started < MaxAnalyses
    /\ Cardinality(inFlight) < MaxInFlight
    /\ analyzePhoto(selectedFile)
    /\ UNCHANGED <<selectedFile, analysisResult, isPremiumUnlocked, showPricingModal,
                   currentAnalysisId, activeTab, resultFile, mounted>>
    /\ UNCHANGED <<vars, fnVars>>

\* analyzePhoto after its `await`: analyzePhotoWithAI resolved
AnalysisCompletes ==
    /\ \E call \in inFlight :
           /\ inFlight' = inFlight \ {call}
           /\ currentAnalysisId' = [id |-> call.id]
           /\ \E enhancedAnalysis \in ResolvedAnalyses(call.file) :
                  analysisResult' = enhancedAnalysis
           /\ resultFile' = call.file
    /\ isAnalyzing' = FALSE
    /\ UNCHANGED <<selectedFile, isPremiumUnlocked, showPricingModal, activeTab,
                   error, started, overlapped, mounted>>
    /\ UNCHANGED <<vars, fnVars, limiterVars, loggerVars>>

handleUpgrade ==
    /\ mounted
    /\ ColorResultsRendered
    /\ showPricingModal' = TRUE
    /\ UNCHANGED <<selectedFile, isAnalyzing, analysisResult, isPremiumUnlocked,
                   currentAnalysisId, activeTab, error, inFlight, started,
                   resultFile, overlapped, mounted>>
    /\ UNCHANGED <<vars, fnVars, limiterVars, loggerVars>>

\* Passed to PricingModal as onSuccess.
handleUpgradeSuccess ==
    /\ mounted
    /\ showPricingModal
    /\ isPremiumUnlocked' = TRUE
    /\ showPricingModal' = FALSE
    /\ UNCHANGED <<selectedFile, isAnalyzing, analysisResult, currentAnalysisId,
                   activeTab, error, inFlight, started, resultFile, overlapped,
                   mounted>>
    /\ UNCHANGED <<vars, fnVars, limiterVars, loggerVars>>

\* onClose of PricingModal
ClosePricingModal ==
    /\ mounted
    /\ showPricingModal
    /\ showPricingModal' = FALSE
    /\ UNCHANGED <<selectedFile, isAnalyzing, analysisResult, isPremiumUnlocked,
                   currentAnalysisId, activeTab, error, inFlight, started,
                   resultFile, overlapped, mounted>>
    /\ UNCHANGED <<vars, fnVars, limiterVars, loggerVars>>

\* The seven setters of resetAnalysis
ResetState ==
    /\ selectedFile' = Null
    /\ analysisResult' = Null
    /\ isAnalyzing' = FALSE
    /\ isPremiumUnlocked' = FALSE
    /\ currentAnalysisId' = Null
    /\ error' = NoError
    /\ activeTab' = "new"

\* Variant: the premium unlock survives the reset.
resetAnalysis_KeepsUnlock ==
    /\ mounted
    /\ AnalysisViewRendered
    /\ selectedFile' = Null
    /\ analysisResult' = Null
    /\ isAnalyzing' = FALSE
    /\ currentAnalysisId' = Null
    /\ error' = NoError
    /\ activeTab' = "new"
    /\ resultFile' = Null
    /\ UNCHANGED <<isPremiumUnlocked, showPricingModal, inFlight, started,
                   overlapped, mounted>>
    /\ UNCHANGED <<vars, fnVars, limiterVars, loggerVars>>

\* The 'Analyze New Photo' button of the analysis view
resetAnalysis ==
    /\ mounted
    /\ AnalysisViewRendered
    /\ ResetState
    /\ resultFile' = Null
    /\ UNCHANGED <<showPricingModal, inFlight, started, overlapped, mounted>>
    /\ UNCHANGED <<vars, fnVars, limiterVars, loggerVars>>

\* onNewAnalysis of UserDashboard: resetAnalysis(); setActiveTab('new')
handleNewAnalysis ==
    /\ mounted
    /\ activeTab = "dashboard"
    /\ ResetState
    /\ resultFile' = Null
    /\ UNCHANGED <<showPricingModal, inFlight, started, overlapped, mounted>>
    /\ UNCHANGED <<vars, fnVars, limiterVars, loggerVars>>

\* onValueChange of the tabs, and the 'My Analyses' menu item
SetActiveTab ==
    /\ mounted
    /\ \E value \in Tabs \ {activeTab} : activeTab' = value
    /\ UNCHANGED <<selectedFile, isAnalyzing, analysisResult, isPremiumUnlocked,
                   showPricingModal, currentAnalysisId, error, inFlight, started,
                   resultFile, overlapped, mounted>>
    /\ UNCHANGED <<vars, fnVars, limiterVars, loggerVars>>

AppNext ==
    \/ MountEffect
    \/ SelectFile
    \/ ClearFile
    \/ TryAgain
    \/ AnalysisCompletes
    \/ handleUpgrade
    \/ handleUpgradeSuccess
    \/ ClosePricingModal
    \/ resetAnalysis
    \/ handleNewAnalysis
    \/ SetActiveTab

AppSpec == AppInit /\ [][AppNext]_allVars

-----------------------------------------------------------------------------
(* Properties *)

Done == pc = "done"

RequiredFields ==
    {"skinTone", "season", "freeColors", "premiumColors", "recommendations",
     "makeupTips", "wardrobeGuide", "seasonalDetails"}

Complete(r) == RequiredFields \subseteq DOMAIN r

ColorsOf(r, k) == IF Has(r, k) THEN {r[k][i] : i \in 1..Len(r[k])} ELSE {}

\* The upload stage ended in an error: a failed size precondition, or
\* maxRetries store calls none of which produced a URL.
UploadFailed ==
    \/ file.size = 0
    \/ file.size > 15 * 1024 * 1024
    \/ storeCalls = maxRetries /\ publicUrl = <<>>

PreconditionMessages == {PleaseSelect, FileTooLarge}

TopFallbacks == {generateFallbackAnalysis(file.name, s) : s \in Seasons}

\* The result comes from the Fallback Generator: through the catch block of
\* analyzePhotoWithAI, or through the fallback inside generateBasicAnalysis.
FromFallback ==
    \/ result \in TopFallbacks
    \/ basic \in {generateFallbackAnalysis("incomplete_ai_result", s) : s \in Seasons}

\* C1: analyzePhotoWithAI always resolves, never rejects, and the result has
\* all of skinTone, season, freeColors, premiumColors, recommendations,
\* makeupTips, wardrobeGuide and seasonalDetails.
C1_AlwaysCompleteResult ==
    Done => outcome = "resolved" /\ Complete(result)

\* C2: every returned result has exactly 3 freeColors, whatever the primary
\* AI call returned and whatever fields the enrichment object has.
C2_FreeColorsExactlyThree ==
    Done => Has(result, "freeColors") /\ Len(result.freeColors) = 3

\* C3: in every returned result the hex of every color of freeColors and of
\* premiumColors matches ^#[0-9A-Fa-f]{6}$.
C3_EveryHexValid ==
    Done => \A c \in ColorsOf(result, "freeColors") \cup ColorsOf(result, "premiumColors") :
                Has(c, "hex") /\ MatchesHex6(c.hex)

\* C4: the season of every returned result is one of the four seasons, and a
\* primary response whose season is outside them leads to a fallback result.
C4_SeasonClosed ==
    Done =>
        /\ result.season \in Seasons
        /\ (Has(primary, "object") /\ Has(primary.object, "season")
            /\ primary.object.season \notin Seasons)
           => FromFallback

\* C5: when the enrichment AI call throws, the result has at least one premium
\* color, has makeupTips, wardrobeGuide and seasonalDetails, and keeps the
\* basic result's skinTone, season, freeColors and recommendations.
C5_EnrichmentThrowDegrades ==
    (Done /\ enrichKind = "throw") =>
        /\ Has(result, "premiumColors") /\ Len(result.premiumColors) >= 1
        /\ {"makeupTips", "wardrobeGuide", "seasonalDetails"} \subseteq DOMAIN result
        /\ \A k \in {"skinTone", "season", "freeColors", "recommendations"} :
              /\ Has(result, k) <=> Has(basic, k)
              /\ Has(basic, k) => result[k] = basic[k]

C5_Witness ==
    /\ Done /\ enrichKind = "throw"
    /\ primary.kind = "object" /\ ~Incomplete(primary.object)
    /\ Len(result.premiumColors) = 15

\* C6 as stated: a failed upload precondition or an exhausted upload reaches
\* the caller of analyzePhotoWithAI as an error, not as a fallback result.
C6_UploadErrorReachesCaller ==
    (Done /\ UploadFailed) => outcome = "rejected" /\ result = Null

\* C6, amended: uploadWithRetry raises the error, and analyzePhotoWithAI
\* catches it and resolves with a fallback result, making no HEAD request and
\* no AI call.
C6_UploadErrorAnsweredByFallback ==
    (Done /\ UploadFailed) =>
        /\ uploadError # NoError
        /\ caught = uploadError
        /\ outcome = "resolved"
        /\ result \in TopFallbacks
        /\ headCalls = 0 /\ aiCalls = 0 /\ enrichCalls = 0

C6_Witness ==
    /\ Done /\ file.size = 0
    /\ uploadError = PleaseSelect
    /\ result \in TopFallbacks

\* The claim's own reading of a successful attempt: the store returned a URL
\* beginning with 'http'.
OkAttempt(out) ==
    /\ out.kind = "result"
    /\ Len(out.publicUrl) >= 4
    /\ SubSeq(out.publicUrl, 1, 4) = <<"h","t","t","p">>

\* C7: at most 3 upload attempts; a failed attempt k < 3 is followed by a wait
\* of 2^k * 1000 ms (2000, then 4000) before attempt k + 1; no wait follows
\* attempt 3; no attempt follows a successful one; an attempt succeeds exactly
\* when the store returns a URL beginning with 'http'; success on the third
\* attempt comes after 6000 ms of backoff.
C7_BoundedBackoff ==
    /\ storeCalls <= 3
    /\ Len(waits) <= 2
    /\ waits = SubSeq(<<2000, 4000>>, 1, Len(waits))
    /\ pc = "attempt" => storeCalls = Len(waits)
    /\ pc = "backoff" => storeCalls = Len(waits) + 1 /\ ~OkAttempt(lastOutcome)
    /\ pc \in {"head", "basic", "race", "enhance"} =>
          /\ storeCalls = Len(waits) + 1
          /\ OkAttempt(lastOutcome)
          /\ publicUrl = lastOutcome.publicUrl
    /\ (Done /\ storeCalls > 0) =>
          \/ storeCalls = Len(waits) + 1 /\ OkAttempt(lastOutcome)
                /\ publicUrl = lastOutcome.publicUrl
          \/ storeCalls = 3 /\ waits = <<2000, 4000>> /\ ~OkAttempt(lastOutcome)
                /\ publicUrl = <<>>
    /\ (publicUrl # <<>> /\ storeCalls = 3) => waits[1] + waits[2] = 6000

C7_Witness ==
    /\ pc = "head" /\ storeCalls = 3
    /\ waits = <<2000, 4000>>
    /\ publicUrl # <<>>

\* C8: when every attempt fails there are exactly 3 attempts, and the error
\* raised names the attempt count 3 and carries the message of the failure of
\* the third attempt.
C8_ExhaustedError ==
    (Done /\ storeCalls > 0 /\ publicUrl = <<>>) =>
        /\ storeCalls = 3
        /\ uploadError =
             <<"Upload failed after ", "3", " attempts: ">> \o AttemptError(lastOutcome)

C8_Witness ==
    /\ Done /\ storeCalls = 3 /\ publicUrl = <<>>
    /\ lastOutcome.kind = "throw"
    /\ uploadError = <<"Upload failed after ", "3", " attempts: ", "Network request failed">>

\* C9: a file of size 0 or of more than 15 MiB fails validation before any
\* store call, HEAD request or AI call; a file with 0 < size <= 15 MiB passes
\* validation and reaches the first upload attempt.
C9_SizePrecondition ==
    /\ (file.size = 0 \/ file.size > 15 * 1024 * 1024) =>
          /\ storeCalls = 0 /\ headCalls = 0 /\ aiCalls = 0 /\ enrichCalls = 0
          /\ pc # "validate" => Done /\ uploadError \in PreconditionMessages
    /\ (0 < file.size /\ file.size <= 15 * 1024 * 1024 /\ pc # "validate") =>
          /\ uploadError \notin PreconditionMessages
          /\ pc = "attempt" \/ storeCalls >= 1

C9_Witness ==
    /\ Done /\ file.size = 16 * 1024 * 1024
    /\ uploadError = FileTooLarge /\ storeCalls = 0

\* C10 as stated: a file with an empty name is rejected before any upload
\* attempt.
C10_EmptyNameRejected ==
    file.name = "" => storeCalls = 0

\* C10, amended: uploadWithRetry does not look at the file name; a file with
\* an empty name and a valid size passes validation and is uploaded.
C10_EmptyNameNotChecked ==
    (file.name = "" /\ 0 < file.size /\ file.size <= 15 * 1024 * 1024 /\ pc # "validate") =>
        /\ uploadError \notin PreconditionMessages
        /\ pc = "attempt" \/ storeCalls >= 1

C10_Witness ==
    /\ file.name = "" /\ storeCalls >= 1
    /\ publicUrl # <<>>

PremiumFields == {"premiumColors", "makeupTips", "wardrobeGuide", "seasonalDetails"}

\* C11: generateEnhancedAnalysis never raises and always returns a complete
\* result: when the enrichment call throws, returns no object, or returns an
\* object lacking one of premiumColors, makeupTips, wardrobeGuide and
\* seasonalDetails, the result is the static fallback premium data built from
\* the basic result.
C11_EnrichmentAlwaysComplete ==
    (Done /\ enrichCalls = 1) =>
        /\ outcome = "resolved"
        /\ PremiumFields \subseteq DOMAIN result
        /\ (\/ enrichment.kind # "object"
            \/ ~(PremiumFields \subseteq DOMAIN enrichment.object))
           => result = generateFallbackPremiumData(basic)

\* The primary response object fails the shape validation as the claim words it.
ShapeInvalid(o) ==
    \/ "skinTone" \notin DOMAIN o
    \/ o.skinTone = <<>>
    \/ "season" \notin DOMAIN o
    \/ "freeColors" \notin DOMAIN o
    \/ o.freeColors = <<>>

\* C12: on a primary response object that fails shape validation,
\* generateBasicAnalysis does not throw and returns a Fallback Generator
\* result: a valid season and the 3 fixed free colors.
C12_InvalidShapeFallsBack ==
    (race \in {"aiWon", "aiWonTimerFired"} /\ primary.kind = "object"
     /\ ShapeInvalid(primary.object)) =>
        /\ caught = NoError
        /\ basic # Null
        /\ basic.season \in Seasons
        /\ basic.freeColors = fallbackFreeColors
        /\ Len(basic.freeColors) = 3
        /\ basic = generateFallbackAnalysis("incomplete_ai_result", basic.season)

C12_Witness ==
    /\ pc = "enhance"
    /\ primary.kind = "object"
    /\ "freeColors" \in DOMAIN primary.object /\ primary.object.freeColors = <<>>
    /\ basic.freeColors = fallbackFreeColors

\* The AI call won the race with a well-shaped object of one or two colors.
FewColors ==
    /\ race \in {"aiWon", "aiWonTimerFired"}
    /\ primary.kind = "object"
    /\ ~Incomplete(primary.object)
    /\ Len(primary.object.freeColors) \in 1..2

AllHaveHex(colors) == \A i \in 1..Len(colors) : Has(colors[i], "hex")

\* The k colors of the AI come first in the basic result, hex-repaired.
KeepsAIColors ==
    \A i \in 1..Len(primary.object.freeColors) :
        basic.freeColors[i] = FixColor(primary.object.freeColors[i])

\* C13 as stated: with k colors from the AI, 1 <= k < 3, the basic result has
\* these k colors first and then the defaults Classic Navy, Soft Cream, ...
\* taken from the head of the default list, up to length 3.
C13_PadsFromFirstDefault ==
    (FewColors /\ AllHaveHex(primary.object.freeColors)) =>
        /\ basic # Null
        /\ Len(basic.freeColors) = 3
        /\ KeepsAIColors
        /\ \A i \in (Len(primary.object.freeColors) + 1)..3 :
               basic.freeColors[i] = defaultColors[i - Len(primary.object.freeColors)]

\* C13 amended: with k colors from the AI, 1 <= k < 3, the padding loop ends
\* with length 3, the k colors first, and position i > k holds the default of
\* the same position i (k = 1: Soft Cream, Dusty Rose; k = 2: Dusty Rose;
\* Classic Navy is never appended); if a color of the AI has no hex the stage
\* raises instead of returning.
C13_PadsPositionally ==
    FewColors =>
        IF AllHaveHex(primary.object.freeColors)
        THEN /\ basic # Null
             /\ Len(basic.freeColors) = 3
             /\ KeepsAIColors
             /\ \A i \in (Len(primary.object.freeColors) + 1)..3 :
                    basic.freeColors[i] = defaultColors[i]
        ELSE /\ basic = Null
             /\ caught = <<"AI analysis failed: ">> \o MatchOfUndefined

C13_Witness ==
    /\ FewColors
    /\ Len(primary.object.freeColors) = 1
    /\ basic # Null
    /\ basic.freeColors[2] = defaultColors[2]
    /\ basic.freeColors[3] = defaultColors[3]

\* The AI call won the race and generateBasicAnalysis returned its object,
\* padded and repaired.
RepairedAIObject ==
    /\ race \in {"aiWon", "aiWonTimerFired"}
    /\ primary.kind = "object"
    /\ ~Incomplete(primary.object)
    /\ basic # Null

\* C14: the hex repair prepends '#' when it is missing and doubles each digit
\* of a 3-digit form: 'abc' and '#abc' become '#aabbcc', '123456' becomes
\* '#123456'; a hex that already is '#' and 6 hex digits is left as it is.
C14_HexRepair ==
    RepairedAIObject =>
        \A i \in 1..Len(primary.object.freeColors) :
            LET h == primary.object.freeColors[i].hex
                g == basic.freeColors[i].hex
            IN  /\ h = <<"a","b","c">> => g = <<"#","a","a","b","b","c","c">>
                /\ h = <<"#","a","b","c">> => g = <<"#","a","a","b","b","c","c">>
                /\ h = <<"1","2","3","4","5","6">> => g = <<"#","1","2","3","4","5","6">>
                /\ MatchesHex6(h) => g = h
                /\ (~MatchesHex6(h) /\ ~StartsWith(h, <<"#">>)) =>
                       /\ g[1] = "#"
                       /\ Len(h) = 3 => g = <<"#", h[1], h[1], h[2], h[2], h[3], h[3]>>
                       /\ Len(h) # 3 => g = <<"#">> \o h

C14_Witness ==
    /\ RepairedAIObject
    /\ primary.object.freeColors[1].hex = <<"a","b","c">>
    /\ basic.freeColors[1].hex = <<"#","a","a","b","b","c","c">>

TimeoutError == <<"AI analysis failed: ">> \o TimedOut

\* C15: the first of the AI call and the 60 s timer to settle decides alone.
\* Timer first: the stage raises the timeout error, the pipeline resolves with
\* a fallback result, and this stays so once the AI call settles later.
\* AI call first: the stage's outcome is the one its response gives, never the
\* timeout error, and the final result is built from it, also once the timer
\* has fired later.
C15_FirstSettlementDecides ==
    /\ race \in {"timerWon", "timerWonAiSettled"} =>
           /\ primary = [kind |-> "timeout"]
           /\ Done
           /\ caught = TimeoutError
           /\ basic = Null
           /\ outcome = "resolved"
           /\ result \in TopFallbacks
    /\ race \in {"aiWon", "aiWonTimerFired"} =>
           /\ primary \in AiSettlements
           /\ caught # TimeoutError
           /\ \E s \in Seasons :
                  LET r == generateBasicAnalysis(primary, s)
                  IN  IF r.threw
                      THEN /\ caught = r.error
                           /\ basic = Null
                           /\ Done
                      ELSE /\ caught = NoError
                           /\ basic = r.value
           /\ (Done /\ caught = NoError) =>
                  result = generateEnhancedAnalysis(basic, enrichment)

C15_Witness ==
    /\ race = "aiWonTimerFired"
    /\ Done
    /\ primary.kind = "object"
    /\ caught = NoError
    /\ result = generateEnhancedAnalysis(basic, enrichment)

\* The enrichment AI call answered with an object.
EnrichedByObject == Done /\ enrichCalls = 1 /\ enrichment.kind = "object"

\* C16: when the enrichment AI call succeeds with an object, the result has
\* the object's value for every field of the object, the basic result's value
\* for every other field of the basic result, and no further field.
C16_MergePrecedence ==
    EnrichedByObject =>
        /\ DOMAIN result = DOMAIN basic \cup DOMAIN enrichment.object
        /\ \A k \in DOMAIN enrichment.object : result[k] = enrichment.object[k]
        /\ \A k \in DOMAIN basic \ DOMAIN enrichment.object : result[k] = basic[k]

C16_Witness ==
    /\ EnrichedByObject
    /\ "freeColors" \in DOMAIN enrichment.object
    /\ result.freeColors = enrichment.object.freeColors
    /\ result.freeColors # basic.freeColors
    /\ result.skinTone = basic.skinTone

\* The message of what the network/model layer raised, as the catch block of
\* generateBasicAnalysis reads it.
UnderlyingMessage ==
    CASE primary.kind = "throw" -> primary.message
      [] primary.kind = "timeout" -> <<"AI analysis timed out after 60 seconds">>
      [] primary.kind = "noobject" -> <<"AI analysis failed to generate results">>
      [] primary.kind = "throwValue" -> <<"Unknown error">>

\* C17: one invocation issues exactly one primary AI request, never a second
\* one, and a failure of the network/model layer (a thrown error, the timeout,
\* a response without an object) is re-raised as 'AI analysis failed: '
\* followed by the underlying message, which ends the stage.
C17_OneRequestErrorPrefixed ==
    /\ aiCalls <= 1
    /\ race # "idle" => aiCalls = 1
    /\ (race \notin {"idle", "pending"}
        /\ primary.kind \in {"throw", "throwValue", "timeout", "noobject"}) =>
           /\ caught = <<"AI analysis failed: ">> \o UnderlyingMessage
           /\ basic = Null
           /\ Done
           /\ aiCalls = 1
           /\ enrichCalls = 0

C17_Witness ==
    /\ Done
    /\ aiCalls = 1
    /\ primary # Null
    /\ primary.kind = "throw"
    /\ caught = <<"AI analysis failed: ">> \o primary.message

\* C18: the stages run in the order upload, HEAD check, primary AI call,
\* enrichment AI call, each at most once and only after the one before it
\* succeeded; a HEAD check that throws or answers with a non-success status
\* ends the invocation with no AI call and no second HEAD request.
C18_StageOrder ==
    /\ headCalls <= 1 /\ aiCalls <= 1 /\ enrichCalls <= 1
    /\ headCalls = 1 =>
           /\ storeCalls >= 1
           /\ AttemptSucceeds(lastOutcome)
           /\ publicUrl = lastOutcome.publicUrl
           /\ uploadError = NoError
    /\ aiCalls = 1 => headCalls = 1 /\ headResult = "ok"
    /\ enrichCalls = 1 =>
           /\ aiCalls = 1
           /\ race \in {"aiWon", "aiWonTimerFired"}
           /\ basic # Null
    /\ headResult \in {"notok", "throw"} =>
           /\ Done
           /\ headCalls = 1
           /\ aiCalls = 0
           /\ enrichCalls = 0
           /\ caught = NotAccessible

C18_Witness ==
    /\ Done
    /\ headResult = "notok"
    /\ headCalls = 1
    /\ aiCalls = 0
    /\ caught = NotAccessible

\* C19: every result analyzePhotoWithAI returns, one of the Fallback Generator
\* included, has at least 20 premiumColors.
C19_AtLeastTwentyPremiumColors ==
    Done => /\ Has(result, "premiumColors")
            /\ Len(result.premiumColors) >= 20

\* Two of the fileName/context arguments generateFallbackAnalysis is called
\* with: the name of a file and the context of the shape check.
FallbackContexts == {"photo.jpg", "incomplete_ai_result"}

C21_TypeNotRejected ==
    (0 < file.size /\ file.size <= 15 * 1024 * 1024 /\ pc # "validate") =>
        /\ pc = "attempt" \/ storeCalls >= 1
        /\ uploadError # NoError =>
               /\ storeCalls = maxRetries
               /\ uploadError = ExhaustedMessage(maxRetries, AttemptError(lastOutcome))

C21_Witness ==
    /\ file.type = "text/plain"
    /\ file.type \notin validTypes
    /\ storeCalls >= 1
    /\ publicUrl # <<>>
    /\ pc = "head"

ValidateCalled == fnCall = "validateFileUpload"

\* the name ends, whatever the case of its letters, in one of the extensions
\* .php .exe .bat .sh .cmd .scr .com .pif .vbs .js .jar
BlockedName(name) ==
    \E ext \in {<<".","p","h","p">>, <<".","e","x","e">>, <<".","b","a","t">>,
                <<".","s","h">>, <<".","c","m","d">>, <<".","s","c","r">>,
                <<".","c","o","m">>, <<".","p","i","f">>, <<".","v","b","s">>,
                <<".","j","s">>, <<".","j","a","r">>} :
        /\ Len(name) >= Len(ext)
        /\ \A i \in 1..Len(ext) :
               lowerChar(name[Len(name) - Len(ext) + i]) = ext[i]

\* C22: validateFileUpload answers isValid = true exactly when the type is one
\* of the seven allowed image types, the size is at most 15 MiB and the name
\* does not end in a blocked extension; otherwise isValid = false with an
\* error message. A text/plain file and a 16 MiB JPEG are rejected, a 14 MiB
\* JPEG is accepted.
C22_ValidateFileUpload ==
    ValidateCalled =>
        LET f == fnArg.value
            ok == /\ f.type \in {"image/jpeg", "image/jpg", "image/png", "image/webp",
                                 "image/gif", "image/bmp", "image/tiff"}
                  /\ f.size <= 15 * 1024 * 1024
                  /\ ~BlockedName(f.name)
        IN  /\ fnRes.isValid = ok
            /\ ok => DOMAIN fnRes = {"isValid"}
            /\ ~ok => Has(fnRes, "error") /\ fnRes.error # <<>>
            /\ f.type = "text/plain" => ~fnRes.isValid
            /\ (f.type = "image/jpeg" /\ f.size = 16 * 1024 * 1024) => ~fnRes.isValid
            /\ (f.type = "image/jpeg" /\ f.size = 14 * 1024 * 1024
                /\ f.name = <<"p","h","o","t","o",".","j","p","g">>) => fnRes.isValid

C22_Witness ==
    /\ ValidateCalled
    /\ fnArg.value.type = "image/jpeg"
    /\ fnArg.value.size = 15 * 1024 * 1024
    /\ fnArg.value.name = <<"p","h","o","t","o",".","j","p","g">>
    /\ fnRes = [isValid |-> TRUE]

\* The result was built by generateFallbackPremiumData: through the catch
\* block of analyzePhotoWithAI or after a failed enrichment call.
FromPremiumFallback ==
    /\ Done
    /\ \/ caught # NoError
       \/ enrichCalls = 1 /\ enrichment.kind # "object"

Channel(hex, k) == 16 * HexVal(hex[2 * k]) + HexVal(hex[2 * k + 1])

\* ^#[0-9a-f]{6}$
LowerHex6(hex) ==
    /\ Len(hex) = 7
    /\ hex[1] = "#"
    /\ \A i \in 2..7 : \E d \in 1..16 : LowerHexDigits[d] = hex[i]

\* C24: for a 6-digit hex color, lightenColor returns '#' and 6 lower-case hex
\* digits with each channel min(255, c + 40); darkenColor returns the same
\* form with each channel max(0, c - 40).
C24_ShiftedChannels ==
    /\ fnCall = "lightenColor" =>
           /\ LowerHex6(fnRes)
           /\ \A k \in 1..3 :
                  Channel(fnRes, k) = Min(255, Channel(fnArg.value, k) + 40)
    /\ fnCall = "darkenColor" =>
           /\ LowerHex6(fnRes)
           /\ \A k \in 1..3 :
                  Channel(fnRes, k) = IF Channel(fnArg.value, k) < 40
                                      THEN 0
                                      ELSE Channel(fnArg.value, k) - 40

C24_Witness ==
    /\ fnCall = "darkenColor"
    /\ fnArg.value = <<"#","0","f","2","8","F","F">>
    /\ fnRes = <<"#","0","0","0","0","d","7">>

\* C30: the hex repair leaves a hex matching ^#[0-9A-Fa-f]{6}$ unchanged, and
\* repairing the output of a repair changes nothing.
C30_RepairIdempotent ==
    /\ (fnCall \in {"repair", "repairAgain"} /\ MatchesHex6(fnArg.value)) =>
           fnRes = fnArg.value
    /\ fnCall = "repairAgain" => fnRes = fnArg.value

C30_Witness ==
    /\ fnCall = "repairAgain"
    /\ fnArg.value = <<"#","a","a","F","F","z","z">>
    /\ fnRes = <<"#","a","a","F","F","z","z">>

\* At most maxAttempts of the granted calls of an identifier lie within a
\* span of time shorter than windowMs.
GrantsBounded ==
    \A id \in Identifiers :
        \A i \in 1..Len(granted[id]) :
            Cardinality({j \in i..Len(granted[id]) :
                            granted[id][j] - granted[id][i] < windowMs}) <= maxAttempts

\* C27: per identifier at most maxAttempts calls of isAllowed return true
\* within any span shorter than windowMs; a call that returns false records
\* nothing; getRemainingAttempts changes no state; a call for one identifier
\* leaves the record, hence the answers, of every other identifier unchanged.
C27_RateLimit ==
    /\ []GrantsBounded
    /\ [][now' = now =>
            /\ (lastCall'.op = "isAllowed" /\ lastCall'.answer = FALSE)
                   => attempts' = attempts
            /\ lastCall'.op = "getRemainingAttempts" => attempts' = attempts
            /\ \A id \in Identifiers \ {lastCall'.identifier} :
                   /\ AttemptsOf(id)' = AttemptsOf(id)
                   /\ validAttempts(id)' = validAttempts(id)]_allVars

C27_Witness ==
    /\ lastCall # Null
    /\ lastCall.op = "isAllowed"
    /\ lastCall.answer = FALSE
    /\ Len(granted[lastCall.identifier]) > maxAttempts
    /\ maxAttempts = 2

\* The list is at most 100 long, newest first with no gap (each entry is one
\* call older than the one before it), and headed by the latest logError.
LogsNewestFirst ==
    /\ Len(logs) <= 100
    /\ \A i \in 1..(Len(logs) - 1) : logs[i] = logs[i + 1] + 1
    /\ loggerOp = "logError" => logs # <<>> /\ logs[1] = logCalls

\* the newest min(50, length) entries of the list
NewestFifty == SubSeq(logs, 1, IF Len(logs) < 50 THEN Len(logs) ELSE 50)

\* C28 as stated: after any logError and clearLogs calls the list has at most
\* 100 entries, newest first, the oldest dropped; the persisted copy holds the
\* newest min(50, length) of them; clearLogs leaves both empty.
C28_PersistedAlwaysNewest ==
    /\ LogsNewestFirst
    /\ loggerOp = "logError" => persisted = NewestFifty
    /\ loggerOp = "clearLogs" => logs = <<>> /\ persisted = <<>>

\* C28 amended: the same, but the persisted copy holds the newest
\* min(50, length) entries only after a logError whose localStorage.setItem
\* did not throw; when it throws, the error is ignored and the persisted copy
\* is left as it was, so it can be older than the list.
C28_PersistedWhenStored ==
    /\ LogsNewestFirst
    /\ (loggerOp = "logError" /\ ~setItemThrew) => persisted = NewestFifty
    /\ loggerOp = "clearLogs" => logs = <<>> /\ persisted = <<>>
    /\ Len(persisted) <= 50
    /\ \A i \in 1..(Len(persisted) - 1) : persisted[i] = persisted[i + 1] + 1

C28_Witness ==
    /\ loggerOp = "logError"
    /\ ~setItemThrew
    /\ logCalls = 52
    /\ Len(logs) = 100
    /\ logs[1] = 52
    /\ logs[100] = -47
    /\ Len(persisted) = 50
    /\ persisted[50] = 3

\* C25: on the 'new' tab, analysisResult is never non-null while selectedFile
\* is null (the state in which neither the upload hero nor the analysis view
\* is rendered), whatever the interleaving of file selection, resetAnalysis
\* and the completion of an analyzePhoto call in flight.
C25_ResultOnlyWithFile ==
    activeTab = "new" => ~(analysisResult # Null /\ selectedFile = Null)

\* C26: once two analyzePhoto calls have overlapped, isAnalyzing is true as
\* long as a call is in flight, and when none is left in flight the
\* analysisResult shown is the result of the analysis of the selected file.
C26_OverlapShowsCurrentFile ==
    overlapped =>
        /\ inFlight # {} => isAnalyzing
        /\ (inFlight = {} /\ analysisResult # Null /\ selectedFile # Null)
               => resultFile = selectedFile

\* A step that unlocks the premium view
Unlocks == ~isPremiumUnlocked /\ isPremiumUnlocked'

\* A step with the effect of resetAnalysis on a selected file
ResetsSelection ==
    /\ selectedFile # Null
    /\ selectedFile' = Null
    /\ analysisResult' = Null
    /\ currentAnalysisId' = Null
    /\ error' = NoError
    /\ ~isAnalyzing'
    /\ activeTab' = "new"

\* The first min(8, length) premium colors of the result, in order
IsLockedPreview(shown, results) ==
    /\ Len(shown) <= 8
    /\ Len(shown) <= Len(results.premiumColors)
    /\ Len(shown) = 8 \/ Len(shown) = Len(results.premiumColors)
    /\ \A i \in 1..Len(shown) : shown[i] = results.premiumColors[i]

=============================================================================
